---- MODULE Spec2Model ----
(***************************************************************************)
(* State-machine model of the vtsd delivery layer: the DeliveryCache       *)
(* (cache.cpp), its format probing chain, and the asynchronous SLPK        *)
(* opener (slpk/driver.cpp).                                               *)
(***************************************************************************)
EXTENDS Integers, Sequences, FiniteSets, TLC

(***************************************************************************)
(* Bounds of the model.                                                    *)
(***************************************************************************)
\* how many times the wall clock advances in one behaviour
MaxTicks == 3
\* utility::maxOpenFiles(): the soft limit on open files of the process
MaxOpenFiles == 4
\* how many threads call the cache at the same time
NumThreads == 2
\* how many times the wall clock advances while they do
MaxConcTicks == 2
\* how many times openSlpk is called
MaxSlpkCalls == 3
\* the width in bits of std::size_t and long, scaled down
SizeBits == 3
\* how many pieces the file paths given to slpkSplitFilePath are made of
MaxSegments == 4
\* how many pieces the paths asked of SlpkDriver::handle are made of
MaxPieces == 2
\* how many requests a SlpkDriver handles
MaxHandles == 2
\* how many times the max age of a file class is set
MaxSets == 2

(***************************************************************************)
(* Program constants.                                                      *)
(***************************************************************************)
FLUSH_INTERVAL == 60
MAX_INTERVAL_BETWEEN_HITS == 600
\* std::numeric_limits<std::size_t>::max(), at the width of TLC's integers
SizeMax == 2147483647

\* dataset paths asked for, in the order of the cache's primary (path) index
PathOrder == <<"a", "b">>
Paths == {PathOrder[i] : i \in 1..Len(PathOrder)}
\* seconds by which the wall clock advances between two calls
TickSteps == {1, 599}
\* what driver->resources() reports for the dataset at a path
ResOf(path) ==
    IF path = PathOrder[1] THEN [openFiles |-> 2, memory |-> 0]
    ELSE [openFiles |-> 1, memory |-> 1]
\* what driver->externallyChanged() does when called
ProbeStates == {"same", "changed", "fail", "failUnknown"}
\* the three openers of openDriver and what one opener may do
Openers == <<"vts", "vts0", "tileset">>
OpenOutcomes == {"ok", "NoSuchTileSet", "error"}

VARIABLES
    now,              \* std::time(nullptr)
    ticks,            \* number of clock advances so far
    nextFlush_,       \* DeliveryCache::nextFlush_
    drivers_,         \* DeliveryCache::drivers_: the set of Records
    totalResources_,  \* DeliveryCache::totalResources_
    last,             \* what the last call did and returned
    lastGet,          \* the last call of get that returned a driver
    passes,           \* the flush passes that ran: how many, the last two
    mutex_,           \* DeliveryCache::mutex_: the thread that holds it
    threads,          \* the threads that call the cache: where each one is
    hist,             \* per path: what the concurrent calls have done so far
    tasks,            \* the calls of openSlpk and the work they posted
    sub,              \* a SubIStreamDataSource and its last read
    ro,               \* a RoArchiveDataSource and its last read
    split,            \* the last call of slpkSplitFilePath
    layer,            \* a SlpkDriver: layerPrefix_, sceneServerConfig_
    sink,             \* what the SlpkDriver gave to its sinks, in turn
    fileClassSettings,  \* LocationConfig::fileClassSettings: maxAges_
    lastSet,          \* per file class, the value of its last setMaxAge
    sets,             \* how many times setMaxAge was called
    updated           \* the last call of update: its input and its result

cacheVars == <<now, ticks, nextFlush_, drivers_, totalResources_>>

seqVars == <<last, lastGet, passes>>

concVars == <<mutex_, threads, hist>>

slpkVars == <<tasks>>

subVars == <<sub>>

\* the variables of the data sources of the sink
roVars == <<ro>>

splitVars == <<split>>

handleVars == <<layer, sink>>

policyVars == <<fileClassSettings, lastSet, sets, updated>>

sinkVars == <<subVars, roVars, splitVars, handleVars, policyVars>>

\* the variables of the delivery cache and of the openers
deliveryVars == <<cacheVars, seqVars, concVars, slpkVars>>

vars == <<now, ticks, nextFlush_, drivers_, totalResources_, last, lastGet,
          passes,
          mutex_, threads, hist, tasks, sub, ro, split,
          layer, sink, fileClassSettings, lastSet, sets, updated>>

(***************************************************************************)
(* vs::Resources                                                           *)
(***************************************************************************)
NoResources == [openFiles |-> 0, memory |-> 0]

ResLess(a, b) ==
    \/ a.openFiles < b.openFiles
    \/ a.openFiles = b.openFiles /\ a.memory < b.memory

ResAdd(a, b) ==
    [openFiles |-> a.openFiles + b.openFiles, memory |-> a.memory + b.memory]

ResSub(a, b) ==
    [openFiles |-> a.openFiles - b.openFiles, memory |-> a.memory - b.memory]

\* DeliveryCache::DeliveryCache(): cleanupLimit_
cleanupLimit_ == [openFiles |-> MaxOpenFiles \div 2, memory |-> SizeMax]

\* the totals exceed the limit: either component does
OverLimit(total) ==
    \/ total.openFiles > cleanupLimit_.openFiles
    \/ total.memory > cleanupLimit_.memory

(***************************************************************************)
(* Record and the multi-index container                                    *)
(***************************************************************************)
\* Record(path, driver, total): lastHit = now, resources = driver->resources()
Record(path, driver, res, t) ==
    [path |-> path, driver |-> driver, lastHit |-> t, resources |-> res]

\* drivers_.find(boost::make_tuple(path, 0))
Find(recs, path) == {r \in recs : r.path = path}

\* drivers_.insert(record): the path index is unique; the total grows by the
\* inserted Record's resources
Insert(recs, total, rec) ==
    IF Find(recs, rec.path) # {}
    THEN [recs |-> recs, total |-> total]
    ELSE [recs |-> recs \cup {rec}, total |-> ResAdd(total, rec.resources)]

\* Erase that leaves the total as it was
EraseKeepsTotal(recs, total, rec) ==
    [recs |-> recs \ {rec}, total |-> total]

\* idx.erase(it): the total shrinks by the removed Record's resources
Erase(recs, total, rec) ==
    [recs |-> recs \ {rec}, total |-> ResSub(total, rec.resources)]

\* idx.begin() of the ResourcesIdx index: a Record of the lowest resources
Lowest(recs) ==
    CHOOSE r \in recs : \A s \in recs : ~ResLess(s.resources, r.resources)

(***************************************************************************)
(* DeliveryCache::cleanup(std::unique_lock<std::mutex>&)                   *)
(***************************************************************************)
\* the for loop: its condition and its body
RECURSIVE CleanupLoop(_, _, _)
CleanupLoop(recs, total, removed) ==
    IF ResLess(total, cleanupLimit_) /\ recs # {}
    THEN LET r == Lowest(recs)
             e == Erase(recs, total, r)
         IN  CleanupLoop(e.recs, e.total, Append(removed, r.path))
    ELSE [recs |-> recs, total |-> total, removed |-> removed]

Cleanup(recs, total) ==
    IF ResLess(total, cleanupLimit_)
    THEN [recs |-> recs, total |-> total, removed |-> <<>>]
    ELSE CleanupLoop(recs, total, <<>>)

(***************************************************************************)
(* DeliveryCache::flush(std::unique_lock<std::mutex>&)                     *)
(***************************************************************************)
\* the log of the probes called during one call: none yet
NoProbes == [p \in Paths |-> "notcalled"]

\* r.driver->externallyChanged(): the value returned, or what is thrown.
\* pe[path] is what the dataset at path makes its driver's probe do during
\* the call.
Probe(r, pe) ==
    CASE pe[r.path] = "same" -> [value |-> FALSE, thrown |-> "none"]
      [] pe[r.path] = "changed" -> [value |-> TRUE, thrown |-> "none"]
      [] pe[r.path] = "fail" -> [value |-> FALSE, thrown |-> "std::exception"]
      [] OTHER -> [value |-> FALSE, thrown |-> "unknown"]

\* the outcome of the try block when the probe did pr: unknown is what the
\* catch (...) handler makes of an exception of another type
Caught(pr, unknown) ==
    CASE pr.thrown = "none" -> [remove |-> pr.value, escaped |-> FALSE]
      [] pr.thrown = "std::exception" -> [remove |-> TRUE, escaped |-> FALSE]
      [] OTHER -> unknown

\* FlushProbe without its catch (...) handler
FlushProbeNoCatchAll(r, pe) ==
    Caught(Probe(r, pe), [remove |-> FALSE, escaped |-> TRUE])

\* the try block with its two handlers: the remove flag, and whether an
\* exception leaves the block
FlushProbe(r, pe) ==
    Caught(Probe(r, pe), [remove |-> TRUE, escaped |-> FALSE])

\* TimedOut with the remove flag initialized to false
TimedOutNever(r, t) == FALSE

\* TimedOut with FLUSH_INTERVAL added to the allowed interval
TimedOutLate(r, t) ==
    r.lastHit < t - (MAX_INTERVAL_BETWEEN_HITS + FLUSH_INTERVAL)

\* bool remove(r.lastHit < killHit)
TimedOut(r, t) == r.lastHit < t - MAX_INTERVAL_BETWEEN_HITS

\* one round of the loop for Record r: the remove flag
FlushVisit(r, t, pe) ==
    IF TimedOut(r, t)
    THEN [remove |-> TRUE, why |-> "timeout", escaped |-> FALSE]
    ELSE [remove |-> FlushProbe(r, pe).remove, why |-> "changed",
          escaped |-> FlushProbe(r, pe).escaped]

\* the pass before its first round
FlushStart(recs, total) ==
    [recs |-> recs, total |-> total, timedOut |-> {}, changedOut |-> {},
     probes |-> NoProbes, escaped |-> FALSE]

\* the pass st with the probe of Record r logged, if the round calls it
FlushSeen(st, r, t, pe) ==
    IF TimedOut(r, t) THEN st
    ELSE [st EXCEPT !.probes[r.path] = pe[r.path]]

\* iidx = drivers_.erase(iidx), and why
FlushErase(st, r, why) ==
    [st EXCEPT !.recs = Erase(st.recs, st.total, r).recs,
               !.total = Erase(st.recs, st.total, r).total,
               !.timedOut = IF why = "timeout" THEN @ \cup {r.path} ELSE @,
               !.changedOut = IF why = "changed" THEN @ \cup {r.path} ELSE @]

\* the loop over drivers_, in the order of the path index; an exception
\* leaving a round ends the loop
RECURSIVE FlushLoop(_, _, _, _)
RECURSIVE FlushRound(_, _, _, _, _, _)
RECURSIVE FlushRecord(_, _, _, _, _)

\* the end of the round for Record r, v being its remove flag
FlushRound(i, st, t, pe, r, v) ==
    IF v.escaped
    THEN [st EXCEPT !.escaped = TRUE]
    ELSE IF v.remove
    THEN FlushLoop(i + 1, FlushErase(st, r, v.why), t, pe)
    ELSE FlushLoop(i + 1, st, t, pe)

\* the round for Record r
FlushRecord(i, st, t, pe, r) ==
    FlushRound(i, FlushSeen(st, r, t, pe), t, pe, r, FlushVisit(r, t, pe))

FlushLoop(i, st, t, pe) ==
    IF i > Len(PathOrder) \/ st.escaped
    THEN st
    ELSE IF Find(st.recs, PathOrder[i]) = {}
    THEN FlushLoop(i + 1, st, t, pe)
    ELSE FlushRecord(i, st, t, pe,
                     CHOOSE x \in Find(st.recs, PathOrder[i]) : TRUE)

\* if (nextFlush_ > now) { return; }
FlushDue(nf, t) == ~(nf > t)

\* Reschedule that leaves the next pass due at once
RescheduleAtOnce(t) == t

\* nextFlush_ = now + FLUSH_INTERVAL
Reschedule(t) == t + FLUSH_INTERVAL

\* the pass that returns at once
NoFlush(recs, total, nf) ==
    [recs |-> recs, total |-> total, nextFlush |-> nf, ran |-> FALSE,
     timedOut |-> {}, changedOut |-> {}, probes |-> NoProbes,
     escaped |-> FALSE]

\* the pass after its loop st
FlushResult(st, nf, t) ==
    [recs |-> st.recs, total |-> st.total,
     nextFlush |-> IF st.escaped THEN nf ELSE Reschedule(t),
     ran |-> TRUE, timedOut |-> st.timedOut, changedOut |-> st.changedOut,
     probes |-> st.probes, escaped |-> st.escaped]

Flush(recs, total, nf, t, pe) ==
    IF ~FlushDue(nf, t)
    THEN NoFlush(recs, total, nf)
    ELSE FlushResult(FlushLoop(1, FlushStart(recs, total), t, pe), nf, t)

\* what the two passes c and f leave
Passes(c, f) ==
    [recs |-> f.recs, total |-> f.total, nextFlush |-> f.nextFlush,
     ran |-> f.ran, timedOut |-> f.timedOut, changedOut |-> f.changedOut,
     probes |-> f.probes, escaped |-> f.escaped, pressure |-> c.removed,
     stillOver |-> OverLimit(c.total), left |-> Cardinality(c.recs)]

\* flush(guard) after the cleanup pass c
FlushAfter(c, nf, t, pe) == Passes(c, Flush(c.recs, c.total, nf, t, pe))

\* cleanup(guard); flush(guard);
Maintain(recs, total, nf, t, pe) ==
    FlushAfter(Cleanup(recs, total), nf, t, pe)

(***************************************************************************)
(* DeliveryCache::openDriver                                               *)
(***************************************************************************)
\* o[k] is what the k-th opener does with the path
RECURSIVE TryOpeners(_, _, _)
TryOpeners(k, o, tried) ==
    LET t == Append(tried, <<Openers[k], o[k]>>)
    IN  IF o[k] = "ok"
        THEN [ok |-> TRUE, provider |-> Openers[k], err |-> "none", tried |-> t]
        ELSE IF o[k] = "NoSuchTileSet" /\ k < Len(Openers)
        THEN TryOpeners(k + 1, o, t)
        ELSE [ok |-> FALSE, provider |-> "none", err |-> o[k], tried |-> t]

\* openDriver without its second try
openDriverSkipsVts0(o) ==
    IF o[1] = "NoSuchTileSet"
    THEN TryOpeners(3, o, <<<<Openers[1], o[1]>>>>)
    ELSE TryOpeners(1, o, <<>>)

openDriver(o) == TryOpeners(1, o, <<>>)

(***************************************************************************)
(* DeliveryCache::get                                                      *)
(***************************************************************************)
NoDriver == 0

Quiet(op) ==
    [op |-> op, path |-> "none", ret |-> NoDriver, err |-> "none",
     tried |-> <<>>, provider |-> "none", replaced |-> FALSE,
     flushed |-> FALSE, timedOut |-> {}, changedOut |-> {},
     probes |-> NoProbes, disk |-> "same",
     pressure |-> <<>>, stillOver |-> FALSE, left |-> 0]

\* the report of a call after its two maintenance passes m
Report(op, path, m) ==
    [Quiet(op) EXCEPT !.path = path, !.flushed = m.ran,
                      !.timedOut = m.timedOut, !.changedOut = m.changedOut,
                      !.probes = m.probes,
                      !.pressure = m.pressure, !.stillOver = m.stillOver,
                      !.left = m.left,
                      !.err = IF m.escaped THEN "probe" ELSE "none"]

\* r.update()
Update(r, t) == [r EXCEPT !.lastHit = t]

\* fdrivers->driver = driver
Replace(r, d) == [r EXCEPT !.driver = d]

\* get(path) after the maintenance passes m, before the lookup
LookupBase(m, path) ==
    [recs |-> m.recs, total |-> m.total, nextFlush |-> m.nextFlush,
     hot |-> FALSE, next |-> "throw", replace |-> FALSE,
     rep |-> Report("get", path, m)]

\* if (!replace): r.update() and return fdrivers->driver
Hit(base, r, t) ==
    [base EXCEPT !.recs = (@ \ {r}) \cup {Update(r, t)},
                 !.hot = r.driver.hot, !.next = "return",
                 !.rep.ret = r.driver.id]

\* replace = (driver->hotContent() && driver->externallyChanged()), the
\* probe having done pr
LookupProbed(base, r, t, pr) ==
    IF pr.thrown # "none"
    THEN [base EXCEPT !.rep.err = "probe"]
    ELSE IF pr.value
    THEN [base EXCEPT !.next = "open", !.replace = TRUE]
    ELSE Hit(base, r, t)

\* LookupHit that asks every driver found, hot or cold
LookupHitAsksCold(base, r, t, pe) ==
    LookupProbed([base EXCEPT !.rep.probes[r.path] = pe[r.path]],
                 r, t, Probe(r, pe))

\* if (fdrivers != drivers_.end()), r being the Record found
LookupHit(base, r, t, pe) ==
    IF ~r.driver.hot
    THEN Hit(base, r, t)
    ELSE LookupProbed([base EXCEPT !.rep.probes[r.path] = pe[r.path]],
                      r, t, Probe(r, pe))

\* drivers_.find(boost::make_tuple(path, 0))
LookupFind(base, t, path, pe) ==
    IF Find(base.recs, path) = {}
    THEN [base EXCEPT !.next = "open"]
    ELSE LookupHit(base, CHOOSE x \in Find(base.recs, path) : TRUE, t, pe)

\* an exception that leaves the maintenance passes leaves get
LookupAfter(m, t, path, pe) ==
    IF m.escaped
    THEN LookupBase(m, path)
    ELSE LookupFind(LookupBase(m, path), t, path, pe)

\* get(path) up to the decision to open a driver: the maintenance passes,
\* the lookup and the hit.  next is what the call does then.
GetLookup(recs, total, nf, t, path, pe) ==
    LookupAfter(Maintain(recs, total, nf, t, pe), t, path, pe)

\* what get returns or throws after openDriver did od, st being the cache
OpenResult(od, st, ret) ==
    [recs |-> st.recs, total |-> st.total, ret |-> ret, err |-> od.err,
     tried |-> od.tried, provider |-> od.provider]

\* if (replace) fdrivers->driver = driver; else drivers_.insert(Record(...))
Install(recs, total, t, path, replace, d) ==
    IF replace
    THEN [recs |-> {IF x.path = path THEN Replace(x, d) ELSE x : x \in recs},
          total |-> total]
    ELSE Insert(recs, total, Record(path, d, ResOf(path), t))

\* get(path) after openDriver did od; d is the driver it constructed, if any
AfterOpen(od, recs, total, t, path, replace, d) ==
    IF ~od.ok
    THEN OpenResult(od, [recs |-> recs, total |-> total], NoDriver)
    ELSE OpenResult(od, Install(recs, total, t, path, replace, d), d.id)

\* the rest of get(path): the opener chain, then the replacement or the
\* insertion.  id and hot are the new driver's identity and hotContent().
GetOpen(recs, total, t, path, replace, id, o, hot) ==
    AfterOpen(openDriver(o), recs, total, t, path, replace,
              [id |-> id, hot |-> hot])

NoGet == [path |-> "none", drv |-> NoDriver, hot |-> FALSE, at |-> 0,
          replaced |-> FALSE]

\* the driver ids for path p some Record, caller or report still refers to
UsedIds(p) ==
    {r.driver.id : r \in Find(drivers_, p)}
        \cup (IF lastGet.path = p THEN {lastGet.drv} ELSE {})
        \cup (IF last.path = p THEN {last.ret} ELSE {})
        \cup {threads[t].ret : t \in {u \in DOMAIN threads : threads[u].path = p}}

\* the identity of a driver newly constructed for p: the least id no other
\* driver for p bears
FreshId(p) == CHOOSE i \in 1..(Cardinality(UsedIds(p)) + 1) :
                  i \notin UsedIds(p) /\ \A j \in 1..(i - 1) : j \in UsedIds(p)

\* what the dataset at q may have come to when no probe of its driver is
\* called during a call for path p: for the Record asked for, changed on
\* disk or not
Unasked(p, q) ==
    IF q = p /\ Find(drivers_, q) # {} THEN {"same", "changed"} ELSE {"same"}

\* what the datasets on disk make the probes of the cached drivers do
\* during one call for path p ("none": cleanup()); a probe is called only
\* by a flush pass that is due, or by get(p) on a hot driver
ProbeInputs(p) ==
    {pe \in [Paths -> ProbeStates] :
        \A q \in Paths :
            ~(\E r \in Find(drivers_, q) :
                  FlushDue(nextFlush_, now) \/ (q = p /\ r.driver.hot))
                => pe[q] \in Unasked(p, q)}

\* what the datasets on disk make of one call of the opener chain, and the
\* driver it constructs; an opener after the one that decides is never
\* called, nor is a driver constructed when all fail
OpenInputs ==
    {inp \in [o : [1..Len(Openers) -> OpenOutcomes], hot : BOOLEAN] :
        /\ \A j, k \in 1..Len(Openers) :
              j < k /\ inp.o[j] # "NoSuchTileSet" => inp.o[k] = "NoSuchTileSet"
        /\ (\A k \in 1..Len(Openers) : inp.o[k] # "ok") => ~inp.hot}

\* the history of the calls of get: the last call that returned a driver,
\* kept until a call of get does not return that driver, or a probe of it
\* reports a change or fails
Remember(p, rep, hot) ==
    IF rep.ret # NoDriver
    THEN [path |-> p, drv |-> rep.ret, hot |-> hot, at |-> now,
          replaced |-> rep.replaced]
    ELSE IF lastGet.path = p \/ lastGet.path \in rep.changedOut
    THEN NoGet
    ELSE lastGet

\* no flush pass has run yet
NoPasses == [n |-> 0, prev |-> 0, latest |-> 0]

\* the history of the flush passes: a call whose pass ran is noted with
\* its time; more than two passes count as two
NotePass(rep) ==
    IF rep.flushed
    THEN [n |-> IF passes.n = 0 THEN 1 ELSE 2,
          prev |-> passes.latest, latest |-> now]
    ELSE passes

\* what get(p) leaves behind when it returns or throws
Returns(p, recs, total, nf, rep, hot) ==
    /\ drivers_' = recs
    /\ totalResources_' = total
    /\ nextFlush_' = nf
    /\ last' = rep
    /\ lastGet' = Remember(p, rep, hot)
    /\ passes' = NotePass(rep)
    /\ UNCHANGED <<now, ticks>>
    /\ UNCHANGED <<concVars, slpkVars, sinkVars>>

\* a thread calls get(p); the lock makes the call one step
Get(p) ==
    \E pe \in ProbeInputs(p) :
        \E lk \in {GetLookup(drivers_, totalResources_, nextFlush_, now, p, pe)} :
            IF lk.next # "open"
            THEN Returns(p, lk.recs, lk.total, lk.nextFlush,
                         [lk.rep EXCEPT !.disk = pe[p]], lk.hot)
            ELSE \E inp \in OpenInputs :
                    \E op \in {GetOpen(lk.recs, lk.total, now, p, lk.replace,
                                       FreshId(p), inp.o, inp.hot)} :
                        Returns(p, op.recs, op.total, lk.nextFlush,
                                [lk.rep EXCEPT
                                    !.disk = pe[p],
                                    !.ret = op.ret, !.err = op.err,
                                    !.tried = op.tried,
                                    !.provider = op.provider,
                                    !.replaced = lk.replace /\ op.ret # NoDriver],
                                inp.hot)

\* DeliveryCache::cleanup()
PublicCleanup ==
    \E pe \in ProbeInputs("none") :
        \E m \in {Maintain(drivers_, totalResources_, nextFlush_, now, pe)} :
        LET rep == Report("cleanup", "none", m)
        IN  /\ drivers_' = m.recs
            /\ totalResources_' = m.total
            /\ nextFlush_' = m.nextFlush
            /\ last' = rep
            /\ lastGet' = Remember("none", rep, FALSE)
            /\ passes' = NotePass(rep)
            /\ UNCHANGED <<now, ticks>>
            /\ UNCHANGED <<concVars, slpkVars, sinkVars>>

(***************************************************************************)
(* The environment: the wall clock                                         *)
(***************************************************************************)
\* the clock advances by d seconds; what get returned MAX_INTERVAL_BETWEEN_HITS
\* seconds ago or earlier is history no longer needed
Tick(d) ==
    /\ ticks < MaxTicks
    /\ now' = now + d
    /\ ticks' = ticks + 1
    /\ last' = Quiet("tick")
    /\ lastGet' = IF now + d >= lastGet.at + MAX_INTERVAL_BETWEEN_HITS
                   THEN NoGet ELSE lastGet
    /\ UNCHANGED <<nextFlush_, drivers_, totalResources_, passes>>
    /\ UNCHANGED <<concVars, slpkVars, sinkVars>>

(***************************************************************************)
(* Threads that call the cache at the same time                            *)
(***************************************************************************)
Threads == 1..NumThreads

NoOwner == 0

\* TRUE when the constructor of std::unique_lock need not block
MutexFreeAlways(m) == TRUE

MutexFree(m) == m = NoOwner

IdleThread == [pc |-> "idle", path |-> "none", ret |-> NoDriver,
               replace |-> FALSE, waited |-> FALSE]

NoHistory == [opens |-> 0, evicted |-> FALSE, failed |-> FALSE,
              changed |-> FALSE]

\* the history after the maintenance passes reported in rep
NoteMaintenance(h, rep) ==
    [q \in Paths |->
        [h[q] EXCEPT
            !.evicted = @ \/ q \in rep.timedOut \cup rep.changedOut
                          \/ \E i \in 1..Len(rep.pressure) : rep.pressure[i] = q,
            !.changed = @ \/ rep.probes[q] \in {"changed", "fail", "failUnknown"}]]

\* thread t calls get(p), or cleanup() when p is "none"
ThreadCall(t, p) ==
    /\ threads[t].pc = "idle"
    /\ threads' = [threads EXCEPT ![t] = [@ EXCEPT !.pc = "wait", !.path = p,
                                              !.waited = ~MutexFree(mutex_)]]
    /\ UNCHANGED <<cacheVars, seqVars, mutex_, hist, slpkVars, sinkVars>>

\* std::unique_lock<std::mutex> guard(mutex_)
ThreadLock(t) ==
    /\ threads[t].pc = "wait"
    /\ MutexFree(mutex_)
    /\ mutex_' = t
    /\ threads' = [threads EXCEPT ![t].pc = "locked"]
    /\ UNCHANGED <<cacheVars, seqVars, hist, slpkVars, sinkVars>>

\* get(path) of thread t up to the return of the cached driver or to the
\* decision to open one; the return releases the lock
ThreadLookup(t) ==
    /\ threads[t].pc = "locked"
    /\ threads[t].path \in Paths
    /\ \E pe \in ProbeInputs(threads[t].path) :
          \E lk \in {GetLookup(drivers_, totalResources_, nextFlush_, now,
                               threads[t].path, pe)} :
              /\ drivers_' = lk.recs
              /\ totalResources_' = lk.total
              /\ nextFlush_' = lk.nextFlush
              /\ hist' = NoteMaintenance(hist, lk.rep)
              /\ IF lk.next = "open"
                 THEN /\ threads' = [threads EXCEPT ![t] =
                             [@ EXCEPT !.pc = "open", !.replace = lk.replace]]
                      /\ UNCHANGED mutex_
                 ELSE /\ threads' = [threads EXCEPT ![t] =
                             [@ EXCEPT !.pc = "done", !.ret = lk.rep.ret]]
                      /\ mutex_' = NoOwner
    /\ UNCHANGED <<now, ticks, seqVars, slpkVars, sinkVars>>

\* the rest of get(path) of thread t: openDriver, the replacement or the
\* insertion, and the return, which releases the lock
ThreadOpen(t) ==
    /\ threads[t].pc = "open"
    /\ \E inp \in OpenInputs :
          \E op \in {GetOpen(drivers_, totalResources_, now, threads[t].path,
                             threads[t].replace, FreshId(threads[t].path),
                             inp.o, inp.hot)} :
              /\ drivers_' = op.recs
              /\ totalResources_' = op.total
              /\ hist' = [hist EXCEPT
                             ![threads[t].path].opens = @ + 1,
                             ![threads[t].path].failed = @ \/ op.ret = NoDriver]
              /\ threads' = [threads EXCEPT ![t] =
                                [@ EXCEPT !.pc = "done", !.ret = op.ret]]
    /\ mutex_' = NoOwner
    /\ UNCHANGED <<now, ticks, nextFlush_, seqVars, slpkVars, sinkVars>>

\* DeliveryCache::cleanup() of thread t, from the lock to its release
ThreadCleanup(t) ==
    /\ threads[t].pc = "locked"
    /\ threads[t].path = "none"
    /\ \E pe \in ProbeInputs("none") :
          \E m \in {Maintain(drivers_, totalResources_, nextFlush_, now, pe)} :
              /\ drivers_' = m.recs
              /\ totalResources_' = m.total
              /\ nextFlush_' = m.nextFlush
              /\ hist' = NoteMaintenance(hist, Report("cleanup", "none", m))
    /\ threads' = [threads EXCEPT ![t].pc = "done"]
    /\ mutex_' = NoOwner
    /\ UNCHANGED <<now, ticks, seqVars, slpkVars, sinkVars>>

(***************************************************************************)
(* openSlpk (slpk/driver.cpp) and DeliveryCache::post                      *)
(***************************************************************************)
SlpkCalls == 1..MaxSlpkCalls

Mimes == {"application/zip", "application/json", "application/x-zip"}

NoTask == [state |-> "none", mime |-> "none", returned |-> "none",
           posts |-> 0, callbacks |-> 0, result |-> "none"]

\* cache.post(callback, work): the work is handed over, to be run later
post(task) == [task EXCEPT !.state = "posted", !.posts = @ + 1]

\* openSlpk without the test of the MIME type
openSlpkAnyMime(i, mime) ==
    /\ tasks[i].state = "none"
    /\ \A j \in 1..(i - 1) : tasks[j].state # "none"
    /\ tasks' = [tasks EXCEPT ![i] =
                    [post(@) EXCEPT !.mime = mime, !.returned = "empty"]]
    /\ UNCHANGED <<cacheVars, seqVars, concVars, sinkVars>>

\* the i-th call of openSlpk, for a file of the given MIME type
openSlpk(i, mime) ==
    /\ tasks[i].state = "none"
    /\ \A j \in 1..(i - 1) : tasks[j].state # "none"
    /\ tasks' = [tasks EXCEPT ![i] =
                    IF mime # "application/zip"
                    THEN [@ EXCEPT !.state = "rejected", !.mime = mime,
                                   !.returned = "NoSuchTileSet"]
                    ELSE [post(@) EXCEPT !.mime = mime, !.returned = "empty"]]
    /\ UNCHANGED <<cacheVars, seqVars, concVars, sinkVars>>

\* the posted work of call i starts: slpk::Archive reader(path, mime); the
\* constructor throws when ~ok, and the exception leaves the work
ConstructArchive(i, ok) ==
    /\ tasks[i].state = "posted"
    /\ tasks' = [tasks EXCEPT ![i] =
                    IF ok
                    THEN [@ EXCEPT !.state = "archive"]
                    ELSE [@ EXCEPT !.state = "faulted", !.result = "Archive"]]
    /\ UNCHANGED <<cacheVars, seqVars, concVars, sinkVars>>

\* the posted work of call i ends: std::make_shared<SlpkDriver>(reader) and
\* callback(driver); the constructor of the driver, which reads the scene
\* server configuration, throws when ~ok
MakeDriver(i, ok) ==
    /\ tasks[i].state = "archive"
    /\ tasks' = [tasks EXCEPT ![i] =
                    IF ok
                    THEN [@ EXCEPT !.state = "finished",
                                   !.callbacks = @ + 1, !.result = "driver"]
                    ELSE [@ EXCEPT !.state = "faulted", !.result = "SlpkDriver"]]
    /\ UNCHANGED <<cacheVars, seqVars, concVars, sinkVars>>

(***************************************************************************)
(* std::size_t and long                                                    *)
(***************************************************************************)
\* the number of values of a std::size_t
SizeModulus == 2 ^ SizeBits

Sizes == 0..(SizeModulus - 1)

\* the std::size_t an unsigned computation with exact result x yields
SizeT(x) == x % SizeModulus

\* the long a conversion of the value x yields
Long(x) ==
    IF SizeT(x) >= SizeModulus \div 2 THEN SizeT(x) - SizeModulus ELSE SizeT(x)

\* the capacities a buffer char *buf can have: no object is larger than
\* the largest long
BufferSizes == 0..(SizeModulus \div 2 - 1)

Min(a, b) == IF a < b THEN a ELSE b

Max(a, b) == IF a > b THEN a ELSE b

(***************************************************************************)
(* SubIStreamDataSource (sink.cpp)                                         *)
(***************************************************************************)
NoRequest == [called |-> FALSE, at |-> 0, len |-> 0]

NoSub == [made |-> FALSE, total |-> 0, offset |-> 0, count |-> 0,
          offset_ |-> 0, end_ |-> 0, size |-> 0,
          read |-> FALSE, off |-> 0, want |-> 0, req |-> NoRequest,
          ret |-> 0]

\* if (end_ > stat_.size) { end_ = stat_.size; }
ClipEnd(end, total) == IF end > total THEN total ELSE end

\* SubIStreamDataSource(stream, ..., offset, size, gzipped) over a stream
\* whose stat() reports the size total
SubIStreamDataSource(total, offset, size) ==
    [NoSub EXCEPT
        !.made = TRUE, !.total = total, !.offset = offset, !.count = size,
        !.offset_ = offset,
        !.end_ = ClipEnd(SizeT(offset + size), total),
        !.size = SizeT(ClipEnd(SizeT(offset + size), total) - offset)]

\* SubIStreamDataSource::size(): long
SubSize(ds) == Long(ds.size)

\* stream_->read(buf, size, offset) of the backing stream of length total
StreamRead(total, size, offset) == Min(size, Max(0, total - offset))

\* the read at the absolute offset, not beyond end_
SubReadAt(ds, size, off, offset) ==
    IF offset > ds.end_
    THEN [ds EXCEPT !.read = TRUE, !.off = off, !.want = size,
                    !.req = NoRequest, !.ret = 0]
    ELSE [ds EXCEPT !.read = TRUE, !.off = off, !.want = size,
                    !.req = [called |-> TRUE, at |-> offset,
                             len |-> Min(size, SizeT(ds.end_ - offset))],
                    !.ret = StreamRead(ds.total,
                                       Min(size, SizeT(ds.end_ - offset)),
                                       offset)]

\* SubIStreamDataSource::read(buf, size, off)
SubRead(ds, size, off) == SubReadAt(ds, size, off, SizeT(off + ds.offset_))

\* Sink::content(stream, fileClass, offset, size, gzipped)
SubContent(total, offset, size) ==
    /\ ~sub.made
    /\ sub' = SubIStreamDataSource(total, offset, size)
    /\ UNCHANGED <<deliveryVars, roVars, splitVars, handleVars, policyVars>>

\* the HTTP server reads from the data source
SubReadCall(size, off) ==
    /\ sub.made
    /\ sub' = SubRead(sub, size, off)
    /\ UNCHANGED <<deliveryVars, roVars, splitVars, handleVars, policyVars>>

(***************************************************************************)
(* RoArchiveDataSource (sink.cpp)                                          *)
(***************************************************************************)
\* the values a long holds that are not negative
Longs == 0..(SizeModulus \div 2 - 1)

UnknownSize == -1

NoRo == [made |-> FALSE, size_ |-> 0, seekable_ |-> FALSE, off_ |-> 0,
         len |-> 0, read |-> FALSE, off |-> 0, want |-> 0, before |-> 0,
         req |-> NoRequest, ret |-> 0, err |-> "none"]

\* RoArchiveDataSource(is, ...): the stream holds len bytes; is_->size()
\* tells so when known
RoArchiveDataSource(len, known, seekable) ==
    [NoRo EXCEPT !.made = TRUE,
                 !.size_ = IF known THEN len ELSE UnknownSize,
                 !.seekable_ = seekable, !.off_ = 0, !.len = len]

\* long end(off_ + size); if (end > size_) { size = size_ - off_; }
RoFixSize(ds, size) ==
    IF Long(ds.off_ + size) > ds.size_
    THEN SizeT(ds.size_ - ds.off_)
    ELSE size

\* is_->get().read(buf, n) and gcount(): n is taken as a std::streamsize;
\* the stream, at off_, has the bytes up to len left
IStreamRead(ds, n) == Min(Max(0, Long(n)), Max(0, ds.len - ds.off_))

\* RoThrow that throws nothing and moves the cursor as a seek would
RoThrowNever(ds, size, off) ==
    [ds EXCEPT !.read = TRUE, !.off = off, !.want = size,
               !.before = ds.off_, !.req = NoRequest, !.ret = 0,
               !.err = "none", !.off_ = off]

\* LOGTHROW(err2, std::runtime_error) << "This archive file is unseekable."
RoThrow(ds, size, off) ==
    [ds EXCEPT !.read = TRUE, !.off = off, !.want = size,
               !.before = ds.off_, !.req = NoRequest, !.ret = 0,
               !.err = "unseekable"]

\* the read of n bytes at the cursor, which was at was when read was called
RoDone(ds, size, off, was, n) ==
    [ds EXCEPT !.read = TRUE, !.off = off, !.want = size, !.before = was,
               !.req = [called |-> TRUE, at |-> ds.off_, len |-> n],
               !.ret = IStreamRead(ds, n), !.err = "none",
               !.off_ = SizeT(off + IStreamRead(ds, n))]

\* RoArchiveDataSource::read after the cursor is where off is
RoReadAt(ds, size, off, was) == RoDone(ds, size, off, was, RoFixSize(ds, size))

\* is_->get().seekg(off); off_ = off
RoSeek(ds, off) == [ds EXCEPT !.off_ = off]

\* RoArchiveDataSource::read(buf, size, off)
RoRead(ds, size, off) ==
    IF off = ds.off_
    THEN RoReadAt(ds, size, off, ds.off_)
    ELSE IF ds.seekable_
    THEN RoReadAt(RoSeek(ds, off), size, off, ds.off_)
    ELSE RoThrow(ds, size, off)

\* Sink::content(stream, contentType, fileClass, gzipped)
RoContent(len, known, seekable) ==
    /\ ~ro.made
    /\ ro' = RoArchiveDataSource(len, known, seekable)
    /\ UNCHANGED <<deliveryVars, subVars, splitVars, handleVars, policyVars>>

\* the HTTP server reads from the data source
RoReadCall(size, off) ==
    /\ ro.made
    /\ ro' = RoRead(ro, size, off)
    /\ UNCHANGED <<deliveryVars, subVars, splitVars, handleVars, policyVars>>

(***************************************************************************)
(* slpkSplitFilePath (slpk/driver.cpp)                                     *)
(***************************************************************************)
\* strings are sequences of characters
Separator == "/"

\* std::array<std::string, 2> extensions{{ ".slpk", ".spk" }}
extensions == << <<".", "s", "l", "p", "k">>, <<".", "s", "p", "k">> >>

\* the pieces file paths are made of
Segments ==
    { <<Separator>>, <<"d">>, <<".", "z">>,
      <<".", "s", "l", "p", "k">>, <<".", "S", "l", "P", "k">>,
      <<".", "s", "p", "k">>, <<".", "S", "P", "K">> }

RECURSIVE PathsOf(_)
PathsOf(n) ==
    IF n = 0 THEN {<<>>}
    ELSE {p \o g : p \in PathsOf(n - 1), g \in Segments \cup {<<>>}}

FilePaths == PathsOf(MaxSegments)

\* the lower-case form of a character, as ifind_first compares characters
ToLower(c) ==
    CASE c = "S" -> "s"
      [] c = "L" -> "l"
      [] c = "P" -> "p"
      [] c = "K" -> "k"
      [] OTHER -> c

\* ext is found in path at position i, whatever the case of the letters
MatchesAt(path, ext, i) ==
    /\ i + Len(ext) - 1 <= Len(path)
    /\ \A j \in 1..Len(ext) : ToLower(path[i + j - 1]) = ToLower(ext[j])

\* ba::ifind_first(path, ext): the position of the first match, 0 if none
ifind_first(path, ext) ==
    IF \E i \in 1..Len(path) : MatchesAt(path, ext, i)
    THEN CHOOSE i \in 1..Len(path) :
            /\ MatchesAt(path, ext, i)
            /\ \A k \in 1..(i - 1) : ~MatchesAt(path, ext, k)
    ELSE 0

\* the position of the last separator of path, 0 if none
LastSeparator(path) ==
    IF \E i \in 1..Len(path) : path[i] = Separator
    THEN CHOOSE i \in 1..Len(path) :
            /\ path[i] = Separator
            /\ \A k \in (i + 1)..Len(path) : path[k] # Separator
    ELSE 0

\* boost::filesystem::path::parent_path(), for a path of plain names
parent_path(path) ==
    IF LastSeparator(path) <= 1
    THEN SubSeq(path, 1, LastSeparator(path))
    ELSE SubSeq(path, 1, LastSeparator(path) - 1)

\* boost::filesystem::path::filename(); "." after a trailing separator
filename(path) ==
    IF Len(path) > 1 /\ LastSeparator(path) = Len(path)
    THEN <<".">>
    ELSE IF Len(path) = 1 /\ LastSeparator(path) = 1
    THEN path
    ELSE SubSeq(path, LastSeparator(path) + 1, Len(path))

NoSplit == [called |-> FALSE, path |-> <<>>, found |-> FALSE,
            first |-> <<>>, second |-> <<>>]

\* if ((erange != end) && (*erange == '/')) { ++eerange; }
\* positions count from 1; Len(path) + 1 is end
SkipSeparator(path, erange) ==
    IF erange # Len(path) + 1 /\ path[erange] = Separator
    THEN erange + 1
    ELSE erange

\* the body of the loop once ext is found: erange is std::end(range)
SplitAt(path, erange, eerange) ==
    IF eerange = Len(path) + 1
    THEN [called |-> TRUE, path |-> path, found |-> TRUE,
          first |-> parent_path(path), second |-> filename(path)]
    ELSE [called |-> TRUE, path |-> path, found |-> TRUE,
          first |-> SubSeq(path, 1, erange - 1),
          second |-> SubSeq(path, eerange, Len(path))]

\* the end of the match of ext in path
MatchEnd(path, ext) == ifind_first(path, ext) + Len(ext)

\* the loop over extensions, from the k-th on
RECURSIVE SplitFrom(_, _)
SplitFrom(path, k) ==
    IF k > Len(extensions)
    THEN [NoSplit EXCEPT !.called = TRUE, !.path = path]
    ELSE IF ifind_first(path, extensions[k]) = 0
    THEN SplitFrom(path, k + 1)
    ELSE SplitAt(path, MatchEnd(path, extensions[k]),
                 SkipSeparator(path, MatchEnd(path, extensions[k])))

\* slpkSplitFilePath(filePath, sp)
slpkSplitFilePath(path) == SplitFrom(path, 1)

\* a file path is split
SplitCall(path) ==
    /\ ~split.called
    /\ split' = slpkSplitFilePath(path)
    /\ UNCHANGED <<deliveryVars, subVars, roVars, handleVars, policyVars>>

(***************************************************************************)
(* SlpkDriver (slpk/driver.cpp)                                            *)
(***************************************************************************)
\* the pieces the requested paths are made of
Pieces == { <<".">>, <<Separator>>, <<"l">> }

RECURSIVE RequestsOf(_)
RequestsOf(n) ==
    IF n = 0 THEN {<<>>}
    ELSE {p \o g : p \in RequestsOf(n - 1), g \in Pieces \cup {<<>>}}

\* const std::string &path of handle
Requests == RequestsOf(MaxPieces)

\* joinAndRemoveDotSegments("/", sli_.href).substr(1)
LayerPrefixes == { <<>>, <<"l">>, <<"l", Separator>>, <<"n", Separator>> }

\* the documents reader_.sceneServerConfig() may give
Configs == {"config1", "config2"}

NoLayer == [made |-> FALSE, layerPrefix_ |-> <<>>, sceneServerConfig_ |-> ""]

\* SlpkDriver::SlpkDriver(reader)
SlpkDriver(prefix, config) ==
    [made |-> TRUE, layerPrefix_ |-> prefix, sceneServerConfig_ |-> config]

\* ba::starts_with(path, prefix)
starts_with(path, prefix) ==
    /\ Len(prefix) <= Len(path)
    /\ \A i \in 1..Len(prefix) : path[i] = prefix[i]

\* path.substr(pos)
substr(path, pos) == SubSeq(path, pos + 1, Len(path))

NoEntry == <<"?">>

\* sink.content(data, stat)
Content(path, data, mime, fileClass) ==
    [path |-> path, kind |-> "content", body |-> data, entry |-> NoEntry,
     mime |-> mime, lastModified |-> -1, fileClass |-> fileClass,
     error |-> "", message |-> ""]

\* sink.error(utility::makeError<NotFound>(message))
Error(path, error, message) ==
    [path |-> path, kind |-> "error", body |-> "", entry |-> NoEntry,
     mime |-> "", lastModified |-> 0, fileClass |-> "",
     error |-> error, message |-> message]

\* sink.content(reader_.rawistream(name), mime, fileClass)
Stream(path, name, mime, fileClass) ==
    [path |-> path, kind |-> "stream", body |-> "", entry |-> name,
     mime |-> mime, lastModified |-> 0, fileClass |-> fileClass,
     error |-> "", message |-> ""]

\* handle without the test of the layer prefix
handleAnyPath(drv, path) ==
    IF path = <<".">>
    THEN Content(path, drv.sceneServerConfig_, "application/json", "config")
    ELSE Stream(path, path, "application/octet-stream", "data")

\* SlpkDriver::handle(sink, path, config): what the sink is given
\* localPath is computed and logged; rawistream is given path
handle(drv, path) ==
    IF path = <<".">>
    THEN Content(path, drv.sceneServerConfig_, "application/json", "config")
    ELSE IF ~starts_with(path, drv.layerPrefix_)
    THEN Error(path, "NotFound", "Unknown file.")
    ELSE Stream(path, path, "application/octet-stream", "data")

\* the archive is opened and its driver made
MakeSlpkDriver(prefix, config) ==
    /\ ~layer.made
    /\ layer' = SlpkDriver(prefix, config)
    /\ UNCHANGED <<sink, deliveryVars, subVars, roVars, splitVars, policyVars>>

\* the driver handles a request
Handle(path) ==
    /\ layer.made
    /\ Len(sink) < MaxHandles
    /\ sink' = Append(sink, handle(layer, path))
    /\ UNCHANGED <<layer, deliveryVars, subVars, roVars, splitVars, policyVars>>

(***************************************************************************)
(* FileClassSettings (fileclass.hpp) and update (sink.cpp)                 *)
(***************************************************************************)
\* enum class FileClass { config, support, registry, data, unknown }
FileClass == <<"config", "support", "registry", "data", "unknown">>

FileClasses == {FileClass[i] : i \in 1..Len(FileClass)}

\* static_cast<int>(fc)
IndexOf(fc) == (CHOOSE i \in 1..Len(FileClass) : FileClass[i] = fc) - 1

\* the max ages tried
MaxAges == {-1, 30}

\* setMaxAge that sets the max age of every class
setMaxAgeOfAll(maxAges_, fc, value) ==
    [i \in DOMAIN maxAges_ |-> value]

\* FileClassSettings::setMaxAge(fc, value)
setMaxAge(maxAges_, fc, value) ==
    [maxAges_ EXCEPT ![IndexOf(fc)] = value]

\* FileClassSettings::getMaxAge(fc)
getMaxAge(maxAges_, fc) == maxAges_[IndexOf(fc)]

\* FileClassSettings::FileClassSettings(): maxAges_{{0}}, then unknown
NewFileClassSettings ==
    setMaxAge([i \in 0..IndexOf("unknown") |-> 0], "unknown", -1)

\* const FileClassSettings *fileClassSettings: nullptr
Null == [null |-> TRUE, maxAges_ |-> [i \in 0..IndexOf("unknown") |-> 0]]

\* const FileClassSettings *fileClassSettings: the address of settings
AddressOf(maxAges_) == [null |-> FALSE, maxAges_ |-> maxAges_]

\* boost::optional<long>: boost::none
None == [set |-> FALSE, value |-> 0]

\* boost::optional<long>: a value
Some(value) == [set |-> TRUE, value |-> value]

\* the values of Sink::FileInfo tried
FileInfos ==
    [contentType : {"application/json", "application/octet-stream"},
     lastModified : {-1, 7},
     fileClass : FileClasses,
     maxAge : {None} \cup {Some(value) : value \in MaxAges}]

NoUpdate == [called |-> FALSE, settings |-> Null,
             inStat |-> [contentType |-> "", lastModified |-> 0,
                         fileClass |-> "unknown", maxAge |-> None],
             stat |-> [contentType |-> "", lastModified |-> 0,
                       fileClass |-> "unknown", maxAge |-> None],
             again |-> [contentType |-> "", lastModified |-> 0,
                        fileClass |-> "unknown", maxAge |-> None]]

\* update that does not look at the max age of inStat
updateAlways(inStat, settings) ==
    IF settings.null
    THEN [inStat EXCEPT !.maxAge = Some(-1)]
    ELSE [inStat EXCEPT
            !.maxAge = Some(getMaxAge(settings.maxAges_, inStat.fileClass))]

\* update(inStat, fileClassSettings) of sink.cpp
update(inStat, settings) ==
    IF inStat.maxAge.set
    THEN inStat
    ELSE IF settings.null
    THEN [inStat EXCEPT !.maxAge = Some(-1)]
    ELSE [inStat EXCEPT
            !.maxAge = Some(getMaxAge(settings.maxAges_, inStat.fileClass))]

\* what a call of update and a second call on its result give
Updated(inStat, settings) ==
    [called |-> TRUE, settings |-> settings, inStat |-> inStat,
     stat |-> update(inStat, settings),
     again |-> update(update(inStat, settings), settings)]

\* the configuration sets the max age of a file class
SetMaxAge(fc, value) ==
    /\ sets < MaxSets
    /\ sets' = sets + 1
    /\ fileClassSettings' = setMaxAge(fileClassSettings, fc, value)
    /\ lastSet' = [lastSet EXCEPT ![fc] = Some(value)]
    /\ UNCHANGED <<updated, deliveryVars, subVars, roVars, splitVars,
                   handleVars>>

\* Sink::update(stat)
SinkUpdate(stat) ==
    /\ updated' = Updated(stat, AddressOf(fileClassSettings))
    /\ UNCHANGED <<fileClassSettings, lastSet, sets, deliveryVars, subVars,
                   roVars, splitVars, handleVars>>

\* update(stat, nullptr)
UpdateNoSettings(stat) ==
    /\ updated' = Updated(stat, Null)
    /\ UNCHANGED <<fileClassSettings, lastSet, sets, deliveryVars, subVars,
                   roVars, splitVars, handleVars>>

\* DeliveryCache::DeliveryCache()
Init ==
    /\ now = 0
    /\ ticks = 0
    /\ nextFlush_ = now + FLUSH_INTERVAL
    /\ drivers_ = {}
    /\ totalResources_ = NoResources
    /\ last = Quiet("init")
    /\ lastGet = NoGet
    /\ passes = NoPasses
    /\ mutex_ = NoOwner
    /\ threads = [t \in Threads |-> IdleThread]
    /\ hist = [p \in Paths |-> NoHistory]
    /\ tasks = [i \in SlpkCalls |-> NoTask]
    /\ sub = NoSub
    /\ ro = NoRo
    /\ split = NoSplit
    /\ layer = NoLayer
    /\ sink = <<>>
    /\ fileClassSettings = NewFileClassSettings
    /\ lastSet = [fc \in FileClasses |-> None]
    /\ sets = 0
    /\ updated = NoUpdate

Next ==
    \/ \E p \in Paths : Get(p)
    \/ PublicCleanup
    \/ \E d \in TickSteps : Tick(d)

Spec == Init /\ [][Next]_vars

\* the calls of several threads, interleaved
ConcNext ==
    \/ \E t \in Threads : \E p \in Paths \cup {"none"} : ThreadCall(t, p)
    \/ \E t \in Threads : ThreadLock(t)
    \/ \E t \in Threads : ThreadLookup(t)
    \/ \E t \in Threads : ThreadOpen(t)
    \/ \E t \in Threads : ThreadCleanup(t)
    \/ \E d \in TickSteps : ticks < MaxConcTicks /\ Tick(d)

SpecConc == Init /\ [][ConcNext]_vars

\* the asynchronous opener
SlpkNext ==
    \/ \E i \in SlpkCalls : \E mime \in Mimes : openSlpk(i, mime)
    \/ \E i \in SlpkCalls : \E ok \in BOOLEAN : ConstructArchive(i, ok)
    \/ \E i \in SlpkCalls : \E ok \in BOOLEAN : MakeDriver(i, ok)

SpecSlpk == Init /\ [][SlpkNext]_vars

\* the byte-range data source
SubNext ==
    \/ \E total, offset, size \in Sizes : SubContent(total, offset, size)
    \/ \E size \in BufferSizes : \E off \in Sizes : SubReadCall(size, off)

SpecSub == Init /\ [][SubNext]_vars

\* the data source over a stream of a read-only archive
RoNext ==
    \/ \E len \in Longs : \E known, seekable \in BOOLEAN :
          RoContent(len, known, seekable)
    \/ \E size \in BufferSizes : \E off \in Sizes : RoReadCall(size, off)

SpecRo == Init /\ [][RoNext]_vars

\* the path splitting helper
SplitNext == \E path \in FilePaths : SplitCall(path)

SpecSplit == Init /\ [][SplitNext]_vars

\* a SlpkDriver and its requests
HandleNext ==
    \/ \E prefix \in LayerPrefixes : \E config \in Configs :
          MakeSlpkDriver(prefix, config)
    \/ \E path \in Requests : Handle(path)

SpecHandle == Init /\ [][HandleNext]_vars

\* the cache policy of a location and the file infos resolved against it
PolicyNext ==
    \/ \E fc \in FileClasses : \E value \in MaxAges : SetMaxAge(fc, value)
    \/ \E stat \in FileInfos : SinkUpdate(stat)
    \/ \E stat \in FileInfos : UpdateNoSettings(stat)

SpecPolicy == Init /\ [][PolicyNext]_vars

(***************************************************************************)
(* The claims about the delivery cache                                     *)
(***************************************************************************)
Calls == {"get", "cleanup"}

\* Record r of the state before a step is no longer cached after it
Gone(r) == ~\E x \in drivers_' : x.path = r.path /\ x.driver.id = r.driver.id

\* Record r of the state before a step is still cached after it, with the
\* driver it had
Kept(r) == \E x \in drivers_' : x.path = r.path /\ x.driver = r.driver

\* C1: when get(p) returned driver d and the next get(p) comes less than
\* MAX_INTERVAL_BETWEEN_HITS seconds later, d being cold and no probe of d
\* having reported a change, that get(p) returns d again and calls no opener.
C1_CacheHitReuse ==
    [][(/\ last'.op = "get"
        /\ lastGet.drv # NoDriver
        /\ last'.path = lastGet.path
        /\ now < lastGet.at + MAX_INTERVAL_BETWEEN_HITS
        /\ ~lastGet.hot
        /\ last'.probes[lastGet.path] \in {"notcalled", "same"})
       => (last'.ret = lastGet.drv /\ last'.tried = <<>>)]_vars

\* C3: when the cleanup pass of a call has finished, the total is not over
\* the limit any more or no Record is left.
C3_PressurePostcondition ==
    last.op \in Calls => (~last.stillOver \/ last.left = 0)

\* C4: a cleanup pass that starts over the limit removes Records, the one
\* of the lowest cost first and then in ascending order of cost, each only
\* while the running total is still over the limit.
C4_PressureOrdering ==
    [][(/\ last'.op \in Calls
        /\ ResLess(cleanupLimit_, totalResources_)
        /\ drivers_ # {})
       => (/\ Len(last'.pressure) >= 1
           /\ \A r \in drivers_ :
                 ~ResLess(r.resources, ResOf(last'.pressure[1]))
           /\ \A i, j \in 1..Len(last'.pressure) :
                 i < j => ~ResLess(ResOf(last'.pressure[j]),
                                   ResOf(last'.pressure[i])))]_vars

\* C5 as claimed: no Record is ever cached whose lastHit is more than
\* MAX_INTERVAL_BETWEEN_HITS seconds in the past.
C5_NoStaleRecord ==
    \A r \in drivers_ : now - r.lastHit <= MAX_INTERVAL_BETWEEN_HITS

\* C5 as amended: no Record is ever cached whose lastHit is more than
\* MAX_INTERVAL_BETWEEN_HITS seconds before the time of the latest flush
\* pass that ran (nextFlush_ - FLUSH_INTERVAL; the time of construction
\* before the first pass).
C5_NoStaleRecordAtFlush ==
    \A r \in drivers_ :
        (nextFlush_ - FLUSH_INTERVAL) - r.lastHit <= MAX_INTERVAL_BETWEEN_HITS

\* a flush pass has removed a Record for its lastHit and kept another
C5_Witness ==
    /\ last.flushed
    /\ last.timedOut # {}
    /\ drivers_ # {}
    /\ \E r \in drivers_ : now - r.lastHit < MAX_INTERVAL_BETWEEN_HITS

\* C6: a flush pass that runs at time now removes every Record whose lastHit
\* is more than MAX_INTERVAL_BETWEEN_HITS seconds before now, without asking
\* its driver, and keeps every Record whose lastHit is at most 599 seconds
\* before now and whose driver's externallyChanged() returns false.
C6_FlushStaleness ==
    [][last'.flushed
       => \A r \in drivers_ :
             /\ r.lastHit < now - MAX_INTERVAL_BETWEEN_HITS
                   => (/\ Gone(r)
                       /\ r.path \in last'.timedOut
                       /\ last'.probes[r.path] = "notcalled")
             /\ (/\ r.lastHit >= now - (MAX_INTERVAL_BETWEEN_HITS - 1)
                 /\ last'.probes[r.path] = "same")
                   => (Kept(r) \/ \E x \in drivers_' : x = Update(r, now))]_vars

\* a flush pass has removed a Record for its lastHit whose driver it did not
\* ask, and kept one that was hit 599 seconds before and reports no change
C6_Witness ==
    /\ last.flushed
    /\ \E p \in last.timedOut : last.probes[p] = "notcalled"
    /\ \E r \in drivers_ :
          /\ r.lastHit = now - (MAX_INTERVAL_BETWEEN_HITS - 1)
          /\ last.probes[r.path] = "same"

\* C7: when the Record cached for p holds a hot driver d whose
\* externallyChanged() is true, get(p) opens and returns a new driver d'
\* other than d, the cache holds exactly one Record for p and it refers to
\* d'; and the following get(p), less than MAX_INTERVAL_BETWEEN_HITS seconds
\* later and with no probe of d' reporting a change, hits that Record and
\* returns d'.
C7_HotReplacement ==
    [][/\ \A r \in drivers_ :
             (/\ last'.op = "get"
              /\ last'.path = r.path
              /\ r.driver.hot
              /\ last'.probes[r.path] = "changed"
              /\ last'.err = "none")
             => (/\ last'.ret \notin {NoDriver, r.driver.id}
                 /\ \E x \in drivers_' :
                       Find(drivers_', r.path) = {x} /\ x.driver.id = last'.ret)
       /\ (/\ last'.op = "get"
           /\ lastGet.replaced
           /\ last'.path = lastGet.path
           /\ now < lastGet.at + MAX_INTERVAL_BETWEEN_HITS
           /\ last'.probes[lastGet.path] \in {"notcalled", "same"})
          => (last'.ret = lastGet.drv /\ last'.tried = <<>>)]_vars

Failures == {"fail", "failUnknown"}

\* C8: when externallyChanged() of a driver throws during a flush pass, be
\* it a std::exception or anything else, the Record is removed, the call
\* of get() or cleanup() does not throw it, every other Record is visited
\* by the pass as well, and nextFlush_ is rescheduled.
C8_FlushRecovers ==
    [][(last'.flushed /\ \E p \in Paths : last'.probes[p] \in Failures)
       => (/\ \A r \in drivers_ :
                 /\ last'.probes[r.path] \in Failures
                       => (Gone(r) /\ r.path \in last'.changedOut)
                 /\ \/ r.path \in last'.timedOut
                    \/ last'.probes[r.path] # "notcalled"
                 /\ last'.probes[r.path] = "changed" => Gone(r)
                 /\ r.path \in last'.timedOut => Gone(r)
           /\ last'.err # "probe"
           /\ nextFlush_' = now + FLUSH_INTERVAL)]_vars

\* a flush pass has met a probe that throws something unrecognized on the
\* first Record and has gone on to the second, which it kept
C8_Witness ==
    /\ last.flushed
    /\ last.probes[PathOrder[1]] = "failUnknown"
    /\ last.probes[PathOrder[2]] = "same"
    /\ Find(drivers_, PathOrder[2]) # {}
    /\ nextFlush_ = now + FLUSH_INTERVAL

\* C9: openDriver tries the openers in the order vts, vts0, tileset; each
\* opener before the last one tried failed with NoSuchTileSet; an opener
\* that accepts is the last one tried and supplies the driver; a failure
\* other than these reaches the caller of get(), and NoSuchTileSet reaches
\* it only from the third opener.
C9_ProbingOrder ==
    LET n == Len(last.tried)
    IN  n > 0 =>
          /\ n <= Len(Openers)
          /\ \A k \in 1..n : last.tried[k][1] = Openers[k]
          /\ \A k \in 1..(n - 1) : last.tried[k][2] = "NoSuchTileSet"
          /\ last.tried[n][2] = "ok"
                => (/\ last.ret # NoDriver
                    /\ last.err = "none"
                    /\ last.provider = Openers[n])
          /\ last.tried[n][2] # "ok"
                => (/\ last.ret = NoDriver
                    /\ last.err = last.tried[n][2]
                    /\ last.provider = "none")
          /\ last.tried[n][2] = "NoSuchTileSet" => n = Len(Openers)

\* the first two openers did not know the dataset and the third one failed:
\* get() threw what the third opener threw
C9_Witness ==
    /\ last.op = "get"
    /\ Len(last.tried) = 3
    /\ last.tried[1][2] = "NoSuchTileSet"
    /\ last.tried[2][2] = "NoSuchTileSet"
    /\ last.tried[3][2] = "error"
    /\ last.err = "error"


\* C21: a call whose flush pass comes before nextFlush_ removes no Record
\* by that pass and leaves nextFlush_ as it was; a call whose flush pass
\* runs, at time now, leaves nextFlush_ = now + FLUSH_INTERVAL whatever the
\* pass visited or removed; and a pass that runs comes FLUSH_INTERVAL
\* seconds or more after the pass that ran before it.
C21_FlushScheduling ==
    [][last'.op \in Calls
       => /\ now < nextFlush_
                => (/\ ~last'.flushed
                    /\ last'.timedOut = {}
                    /\ last'.changedOut = {}
                    /\ nextFlush_' = nextFlush_
                    /\ passes' = passes)
          /\ now >= nextFlush_
                => (/\ last'.flushed
                    /\ nextFlush_' = now + FLUSH_INTERVAL
                    /\ passes'.latest = now)
          /\ (last'.flushed /\ passes.n >= 1)
                => now - passes.latest >= FLUSH_INTERVAL]_vars

\* two flush passes have run, the later one has removed a Record and kept
\* another, and the next pass is due FLUSH_INTERVAL seconds after it
C21_Witness ==
    /\ passes.n = 2
    /\ last.flushed
    /\ passes.latest = now
    /\ passes.latest - passes.prev >= FLUSH_INTERVAL
    /\ last.timedOut \cup last.changedOut # {}
    /\ drivers_ # {}
    /\ nextFlush_ = now + FLUSH_INTERVAL

\* the sum of the resources fields of the Records recs
RECURSIVE SumOfResources(_)
SumOfResources(recs) ==
    IF recs = {} THEN NoResources
    ELSE ResAdd((CHOOSE r \in recs : TRUE).resources,
                SumOfResources(recs \ {CHOOSE r \in recs : TRUE}))

C23_ColdTrusted ==
    [][\A r \in drivers_ :
          (/\ last'.op = "get"
           /\ last'.path = r.path
           /\ now < nextFlush_)
          => /\ ~r.driver.hot
                   => (/\ last'.ret = r.driver.id
                       /\ last'.err = "none"
                       /\ last'.tried = <<>>
                       /\ last'.probes[r.path] = "notcalled")
             /\ r.driver.hot => last'.probes[r.path] # "notcalled"]_vars

\* the dataset has changed on disk, no flush pass was due, and get has
\* returned the cold driver cached for it without asking the driver
C23_Witness ==
    /\ last.op = "get"
    /\ last.disk = "changed"
    /\ ~last.flushed
    /\ last.probes[last.path] = "notcalled"
    /\ last.tried = <<>>
    /\ \E r \in drivers_ :
          /\ r.path = last.path
          /\ ~r.driver.hot
          /\ r.driver.id = last.ret
          /\ r.lastHit = now

\* C24: every get(p) that returns a driver, by a hit, an insertion or a
\* replacement, leaves the Record of p with lastHit at the time of the
\* call, and so no flush pass removes, by the rule of the last hit, the
\* Record of a path for which get returned a driver less than
\* MAX_INTERVAL_BETWEEN_HITS seconds before.
C24_RequestedNeverTimedOut ==
    [][/\ (last'.op = "get" /\ last'.ret # NoDriver)
             => \E x \in drivers_' :
                   /\ x.path = last'.path
                   /\ x.driver.id = last'.ret
                   /\ x.lastHit = now
       /\ (/\ last'.op \in Calls
           /\ lastGet.drv # NoDriver
           /\ now < lastGet.at + MAX_INTERVAL_BETWEEN_HITS)
             => lastGet.path \notin last'.timedOut]_vars

(***************************************************************************)
(* The claims about concurrent calls and about the asynchronous opener     *)
(***************************************************************************)
\* what the concurrent calls of get(p) have come to: one run of the opener
\* chain at most, one Record at most, and every call that has returned has
\* returned the driver of that Record
OpenedOnce(p) ==
    /\ hist[p].opens <= 1
    /\ Cardinality(Find(drivers_, p)) <= 1
    /\ \A t \in Threads :
          (threads[t].pc = "done" /\ threads[t].path = p)
          => /\ hist[p].opens = 1
             /\ \E r \in drivers_ :
                   Find(drivers_, p) = {r} /\ r.driver.id = threads[t].ret

C10_CallbackOnce ==
    \A i \in SlpkCalls :
        tasks[i].state \in {"finished", "faulted"}
        => (tasks[i].callbacks = 1 /\ tasks[i].result \in {"driver", "error"})

\* C11: openSlpk accepts a file exactly when its MIME type is
\* "application/zip".  For any other type it throws NoSuchTileSet, posts no
\* work and its callback is never invoked.  When it accepts, it posts the
\* work once and returns an empty pointer, the archive not yet constructed
\* and the callback not yet invoked when it returns.
C11_MimeGating ==
    [][\A i \in SlpkCalls :
          /\ tasks'[i].state # "none"
                => /\ tasks'[i].returned = "empty"
                        <=> tasks'[i].mime = "application/zip"
                   /\ tasks'[i].mime # "application/zip"
                        => /\ tasks'[i].returned = "NoSuchTileSet"
                           /\ tasks'[i].state = "rejected"
                           /\ tasks'[i].posts = 0
                           /\ tasks'[i].callbacks = 0
                   /\ tasks'[i].mime = "application/zip"
                        => tasks'[i].posts = 1
          /\ (tasks[i].state = "none" /\ tasks'[i].state # "none")
                => /\ tasks'[i].state \in {"posted", "rejected"}
                   /\ tasks'[i].callbacks = 0]_vars

\* one call has been rejected for its MIME type and stays so while the work
\* of an accepted one has run to its callback
C11_Witness ==
    \E i, j \in SlpkCalls :
        /\ tasks[i].state = "rejected"
        /\ tasks[i].mime = "application/x-zip"
        /\ tasks[j].state = "finished"
        /\ tasks[j].returned = "empty"

(***************************************************************************)
(* The claims about the data sources of the sink                           *)
(***************************************************************************)
\* C14: size() of a byte-range data source made with (offset, size) over a
\* stream of size S is the length of [offset, offset + size) cut to [0, S):
\* max(0, min(offset + size, S) - offset).
C14_WindowSize ==
    sub.made =>
        SubSize(sub) = Max(0, Min(sub.offset + sub.count, sub.total) - sub.offset)

\* C15: a read(buf, size, off) of a byte-range data source asks the backing
\* stream for bytes of [offset_ + off, min(offset_ + off + size, end_)) only,
\* which lie in the window [offset_, end_); a read whose offset is past the
\* end of the window returns 0 and asks the backing stream for nothing.
C15_ReadsInWindow ==
    sub.read =>
        /\ (sub.req.called /\ sub.req.len > 0)
              => /\ sub.req.at = sub.offset_ + sub.off
                 /\ sub.req.at + sub.req.len
                        <= Min(sub.offset_ + sub.off + sub.want, sub.end_)
                 /\ sub.req.at >= sub.offset_
        /\ sub.offset_ + sub.off > sub.end_
              => (~sub.req.called /\ sub.ret = 0)

\* C12: when the total size is known, every read of the archive data
\* source asks the underlying stream for the caller's size cut to what is
\* left between the cursor and the total size, whatever reads came before.
C12_ReadClamped ==
    (ro.read /\ ro.req.called /\ ro.size_ # UnknownSize)
    => ro.req.len = Min(ro.want, Max(0, ro.size_ - ro.req.at))

\* C13: the cursor is 0 at first, and after a read that did not fail it is
\* the offset asked for plus the bytes returned.  On a stream that is not
\* seekable a read at the cursor does not fail, and a read at another
\* offset fails, asks the stream for nothing and leaves the cursor.  On a
\* seekable stream a read at another offset moves the cursor there and
\* goes on.
C13_SequentialOffset ==
    /\ (ro.made /\ ~ro.read) => ro.off_ = 0
    /\ ro.read =>
          /\ ro.err = "none" => ro.off_ = ro.off + ro.ret
          /\ (~ro.seekable_ /\ ro.off = ro.before)
                => (ro.err = "none" /\ ro.req.called)
          /\ (~ro.seekable_ /\ ro.off # ro.before)
                => /\ ro.err = "unseekable"
                   /\ ~ro.req.called
                   /\ ro.ret = 0
                   /\ ro.off_ = ro.before
          /\ (ro.seekable_ /\ ro.off # ro.before)
                => /\ ro.err = "none"
                   /\ ro.req.called
                   /\ ro.req.at = ro.off

\* a stream that is not seekable has been read in sequence up to a cursor
\* that is not 0, and a read elsewhere has just failed
C13_Witness ==
    /\ ro.read
    /\ ~ro.seekable_
    /\ ro.before > 0
    /\ ro.off # ro.before
    /\ ro.err = "unseekable"
    /\ ro.off_ = ro.before

\* C25: every read of the archive data source asks the underlying stream
\* for a length between 0 and the caller's size, be the total size known
\* or not, and also after a seek beyond the total size: nothing in the
\* arithmetic of the lengths goes negative or wraps around.
C25_RequestWithinBuffer ==
    (ro.read /\ ro.req.called)
    => /\ 0 <= Long(ro.req.len)
       /\ ro.req.len <= ro.want

(***************************************************************************)
(* The claims about the SLPK driver                                        *)
(***************************************************************************)
\* the end of the match slpkSplitFilePath goes by: of ".slpk" if the path
\* holds it, else of ".spk"; 0 if the path holds neither
Matched(path) ==
    IF ifind_first(path, extensions[1]) # 0
    THEN MatchEnd(path, extensions[1])
    ELSE IF ifind_first(path, extensions[2]) # 0
    THEN MatchEnd(path, extensions[2])
    ELSE 0

\* C16: when the extension found in the path is followed by a separator
\* and then by more characters, slpkSplitFilePath gives as first part the
\* path up to and including that separator and as second part all that
\* follows it, so that the two parts joined are the path.
C16_SplitAfterSeparator ==
    (/\ split.called
     /\ Matched(split.path) # 0
     /\ Matched(split.path) < Len(split.path)
     /\ split.path[Matched(split.path)] = Separator)
    => /\ split.found
       /\ split.first = SubSeq(split.path, 1, Matched(split.path))
       /\ split.second = SubSeq(split.path, Matched(split.path) + 1,
                                Len(split.path))
       /\ split.first \o split.second = split.path

\* C17: a request of a path other than "." that starts with the layer
\* prefix is answered with the raw archive entry named by the path without
\* the layer prefix, as application/octet-stream of file class data.
C17_EntryWithoutPrefix ==
    \A i \in 1..Len(sink) :
        (/\ sink[i].path # <<".">>
         /\ starts_with(sink[i].path, layer.layerPrefix_))
        => /\ sink[i].kind = "stream"
           /\ sink[i].entry = substr(sink[i].path, Len(layer.layerPrefix_))
           /\ sink[i].mime = "application/octet-stream"
           /\ sink[i].fileClass = "data"

\* C18: a request of "." is answered with the configuration document
\* stored at construction, as application/json of file class config,
\* whatever the layer prefix; a request of any other path that does not
\* start with the layer prefix is answered with the error NotFound,
\* "Unknown file.", and with no content.
C18_RootAndUnknown ==
    \A i \in 1..Len(sink) :
        /\ sink[i].path = <<".">>
           => /\ sink[i].kind = "content"
              /\ sink[i].body = layer.sceneServerConfig_
              /\ sink[i].mime = "application/json"
              /\ sink[i].fileClass = "config"
        /\ (/\ sink[i].path # <<".">>
            /\ ~starts_with(sink[i].path, layer.layerPrefix_))
           => /\ sink[i].kind = "error"
              /\ sink[i].error = "NotFound"
              /\ sink[i].message = "Unknown file."
              /\ sink[i].body = ""
              /\ sink[i].entry = NoEntry

\* a driver whose layer prefix "." does not start with has answered "."
\* and a path outside the layer
C18_Witness ==
    /\ layer.made
    /\ layer.layerPrefix_ # <<>>
    /\ \E i \in 1..Len(sink) : sink[i].path = <<".">>
    /\ \E i \in 1..Len(sink) :
          /\ sink[i].path # <<".">>
          /\ sink[i].path # <<>>
          /\ ~starts_with(sink[i].path, layer.layerPrefix_)
          /\ sink[i].kind = "error"

(***************************************************************************)
(* The claims about the cache policy                                       *)
(***************************************************************************)
\* C19: update gives back a file info whose max age is set as it is;
\* if the max age is not set, it sets it to -1 when no file class policy
\* is attached and to the max age the policy has for the file class of the
\* file info when one is attached; it changes no other field, and update
\* of its result is its result.
C19_MaxAgeResolution ==
    updated.called =>
        /\ updated.inStat.maxAge.set => updated.stat = updated.inStat
        /\ (~updated.inStat.maxAge.set /\ updated.settings.null)
              => updated.stat.maxAge = Some(-1)
        /\ (~updated.inStat.maxAge.set /\ ~updated.settings.null)
              => updated.stat.maxAge
                   = Some(updated.settings.maxAges_
                            [IndexOf(updated.inStat.fileClass)])
        /\ updated.stat.contentType = updated.inStat.contentType
        /\ updated.stat.lastModified = updated.inStat.lastModified
        /\ updated.stat.fileClass = updated.inStat.fileClass
        /\ updated.again = updated.stat

\* a file info of class data with no max age has been resolved against a
\* policy whose max age for data was set to 30, and its max age is 30
C19_Witness ==
    /\ updated.called
    /\ ~updated.settings.null
    /\ lastSet["data"] = Some(30)
    /\ updated.settings.maxAges_ = fileClassSettings
    /\ updated.inStat.fileClass = "data"
    /\ ~updated.inStat.maxAge.set
    /\ updated.stat.maxAge = Some(30)

\* the max age a file class has when it was never set
DefaultMaxAge(fc) == IF fc = "unknown" THEN -1 ELSE 0

\* C20: the max age of a file class is the value of the last setMaxAge
\* for that class, and if there was none it is -1 for unknown and 0 for
\* config, support, registry and data.
C20_MaxAgeTable ==
    \A fc \in FileClasses :
        getMaxAge(fileClassSettings, fc)
            = IF lastSet[fc].set THEN lastSet[fc].value
              ELSE DefaultMaxAge(fc)

\* the max age of data was set to 30 and of config to -1, and unknown,
\* support and registry, never set, have their defaults
C20_Witness ==
    /\ lastSet["data"] = Some(30)
    /\ lastSet["config"] = Some(-1)
    /\ ~lastSet["unknown"].set
    /\ ~lastSet["support"].set
    /\ getMaxAge(fileClassSettings, "data") = 30
    /\ getMaxAge(fileClassSettings, "unknown") = -1
    /\ getMaxAge(fileClassSettings, "support") = 0

====
